---- MODULE Spec2Model ----
(***************************************************************************)
(* State-machine model of the MeetingScheduler component                   *)
(* (src/meeting-scheduler.tsx): the form values, the suggestion fetch,     *)
(* the two-phase submit, the template applier and the cost estimator.      *)
(*                                                                         *)
(* Text that the code inspects (title, e-mail entries, duration) is a      *)
(* tuple of one-character strings; text it only stores or compares         *)
(* (description, timezone, priority, theme colour, time labels) is a       *)
(* string. The component renders no control for the timezone, so the       *)
(* timezone keeps its default value.                                       *)
(***************************************************************************)
EXTENDS Integers, Sequences, FiniteSets, TLC

VARIABLES
    form,            \* react-hook-form values (useForm, defaultValues)
    suggestedTimes,  \* useState<string[]>([])
    selectedTime,    \* useState<string>("")
    loading,         \* useState(false)
    meetingCost,     \* useState(0)
    pending,         \* number of getSuggestedTimes calls suspended at the fetch
    effects,         \* what the latest handler emitted (fetch, log, messages)
    picked           \* history: label of the badge clicked last, NoPick before

vars == <<form, suggestedTimes, selectedTime, loading, meetingCost, pending,
          effects, picked>>

---------------------------------------------------------------------------
(* Bounds and input domains                                                *)

MaxParticipants == 2

Undefined == <<"undefined">>

NoPick == "<none>"

TitleInputs == { <<"M">>, <<"M", "t">> }

DescriptionInputs == { "" }

DateInputs == { <<"2026", "12", "01">> }

ValidEmail == <<"a", "@", "b", ".", "c", "o">>

EmailInputs == { ValidEmail }

ThemeInputs == { "blue", "purple" }

Responses == { <<>>, <<"10:00 AM", "2:00 PM", "">> }

---------------------------------------------------------------------------
(* Program constants                                                       *)

durations == { <<"1", "5">>, <<"3", "0">>, <<"4", "5">>, <<"6", "0">> }

priorities == { "low", "medium", "high" }

meetingTemplates ==
    { [name |-> "Quick Sync", duration |-> <<"1", "5">>,
       description |-> "Brief alignment meeting", priority |-> "low"],
      [name |-> "Team Planning", duration |-> <<"6", "0">>,
       description |-> "Detailed team planning session", priority |-> "medium"],
      [name |-> "Client Presentation", duration |-> <<"4", "5">>,
       description |-> "Important client meeting", priority |-> "high"] }

defaultValues ==
    [title |-> <<>>, description |-> "", date |-> Undefined,
     duration |-> Undefined, participants |-> << <<>> >>, timezone |-> "UTC",
     priority |-> "medium", themeColor |-> "blue"]

averageHourlyRate == 100

---------------------------------------------------------------------------
(* Pure functions                                                          *)

Range(s) == { s[i] : i \in 1..Len(s) }

Digits == <<"0", "1", "2", "3", "4", "5", "6", "7", "8", "9">>

DigitValue(c) == (CHOOSE k \in 1..10 : Digits[k] = c) - 1

RECURSIVE ParseDigits(_, _)
ParseDigits(s, acc) ==
    IF s = <<>> \/ s[1] \notin Range(Digits) THEN acc
    ELSE ParseDigits(Tail(s), acc * 10 + DigitValue(s[1]))

\* Number.parseInt on a string that starts with a digit.
ParseInt(s) == ParseDigits(s, 0)

\* z.string().email(): one "@", a non-empty local part, and a domain that
\* has a non-empty label, a "." and a top-level part of two characters or more.
IsEmail(s) ==
    \E i \in 2..Len(s) :
        /\ s[i] = "@"
        /\ \A j \in 1..Len(s) : s[j] = "@" => j = i
        /\ \E d \in (i + 2)..(Len(s) - 2) : s[d] = "."
        /\ s[i + 1] # "." /\ s[Len(s)] # "."

\* Mutant of SchemaErrors: the participants array loses its min(1) rule.
SchemaErrorsWithoutMinimum(v) ==
    {f \in {"title"} : Len(v.title) < 2}
    \cup {f \in {"date"} : v.date = Undefined}
    \cup {f \in {"duration"} : v.duration = Undefined}
    \cup {f \in {"participants"} :
              \E i \in 1..Len(v.participants) : ~IsEmail(v.participants[i])}

\* The fields formSchema rejects.
SchemaErrors(v) ==
    {f \in {"title"} : Len(v.title) < 2}
    \cup {f \in {"date"} : v.date = Undefined}
    \cup {f \in {"duration"} : v.duration = Undefined}
    \cup {f \in {"participants"} :
              \/ Len(v.participants) < 1
              \/ \E i \in 1..Len(v.participants) : ~IsEmail(v.participants[i])}
    \cup {f \in {"timezone"} : v.timezone \notin STRING}
    \cup {f \in {"priority"} : v.priority \notin priorities}

\* The meeting-cost effect. d / 60 is 0, 0.25, 0.5, 0.75 or 1 for the values
\* the duration can take, all exact in binary floating point, so the product
\* is the exact integer computed here.
ComputeCost(v) ==
    LET participantsCount == Len(v.participants)
        duration == ParseInt(IF v.duration = Undefined \/ v.duration = <<>>
                             THEN <<"0">> ELSE v.duration)
    IN  (participantsCount * duration * averageHourlyRate) \div 60

\* The body getSuggestedTimes posts.
RequestBody(v) ==
    [participants |-> v.participants, duration |-> v.duration,
     timezone |-> v.timezone]

\* Mutant of ScheduledRecord: the selected time is left out of the record.
ScheduledRecordWithoutTime(v, time) ==
    [title |-> v.title, description |-> v.description, date |-> v.date,
     duration |-> v.duration, participants |-> v.participants,
     timezone |-> v.timezone, priority |-> v.priority,
     themeColor |-> v.themeColor, time |-> ""]

\* The record onSubmit logs: { ...values, time: selectedTime }.
ScheduledRecord(v, time) ==
    [title |-> v.title, description |-> v.description, date |-> v.date,
     duration |-> v.duration, participants |-> v.participants,
     timezone |-> v.timezone, priority |-> v.priority,
     themeColor |-> v.themeColor, time |-> time]

\* Mutant of SubmitDisabled: the button is never disabled.
SubmitNeverDisabled == FALSE

\* The submit button's disabled attribute.
SubmitDisabled == loading

---------------------------------------------------------------------------
(* Initial state                                                           *)

Init ==
    /\ form = defaultValues
    /\ suggestedTimes = <<>>
    /\ selectedTime = ""
    /\ loading = FALSE
    /\ meetingCost = ComputeCost(defaultValues)
    /\ pending = 0
    /\ effects = <<>>
    /\ picked = NoPick

---------------------------------------------------------------------------
(* Handlers                                                                *)

\* Mutant of SetValues: the cost effect depends on the duration alone.
SetValuesCostOnDurationOnly(v) ==
    /\ form' = v
    /\ meetingCost' = IF v.duration # form.duration
                      THEN ComputeCost(v) ELSE meetingCost
    /\ effects' = <<>>

\* A field's onChange: the new values, then the cost effect when one of its
\* dependencies (participants, duration) changed.
SetValues(v) ==
    /\ form' = v
    /\ meetingCost' = IF v.participants # form.participants
                         \/ v.duration # form.duration
                      THEN ComputeCost(v) ELSE meetingCost
    /\ effects' = <<>>

SetTitle(t) ==
    /\ SetValues([form EXCEPT !.title = t])
    /\ UNCHANGED <<suggestedTimes, selectedTime, loading, pending, picked>>

SetDescription(d) ==
    /\ SetValues([form EXCEPT !.description = d])
    /\ UNCHANGED <<suggestedTimes, selectedTime, loading, pending, picked>>

SetDate(d) ==
    /\ SetValues([form EXCEPT !.date = d])
    /\ UNCHANGED <<suggestedTimes, selectedTime, loading, pending, picked>>

SetDuration(d) ==
    /\ SetValues([form EXCEPT !.duration = d])
    /\ UNCHANGED <<suggestedTimes, selectedTime, loading, pending, picked>>

SetPriority(p) ==
    /\ SetValues([form EXCEPT !.priority = p])
    /\ UNCHANGED <<suggestedTimes, selectedTime, loading, pending, picked>>

SetThemeColor(c) ==
    /\ SetValues([form EXCEPT !.themeColor = c])
    /\ UNCHANGED <<suggestedTimes, selectedTime, loading, pending, picked>>

EditParticipant(index, text) ==
    /\ index \in 1..Len(form.participants)
    /\ SetValues([form EXCEPT !.participants[index] = text])
    /\ UNCHANGED <<suggestedTimes, selectedTime, loading, pending, picked>>

RemoveParticipant(index) ==
    /\ index \in 1..Len(form.participants)
    /\ SetValues([form EXCEPT !.participants =
                      SubSeq(@, 1, index - 1) \o SubSeq(@, index + 1, Len(@))])
    /\ UNCHANGED <<suggestedTimes, selectedTime, loading, pending, picked>>

AddParticipant ==
    /\ Len(form.participants) < MaxParticipants
    /\ SetValues([form EXCEPT !.participants = Append(@, <<>>)])
    /\ UNCHANGED <<suggestedTimes, selectedTime, loading, pending, picked>>

\* Mutant of TemplateValues: the priority is not set.
TemplateValuesWithoutPriority(template) ==
    [form EXCEPT !.duration = template.duration,
                 !.description = template.description]

TemplateValues(template) ==
    [form EXCEPT !.duration = template.duration,
                 !.description = template.description,
                 !.priority = template.priority]

applyTemplate(template) ==
    /\ SetValues(TemplateValues(template))
    /\ UNCHANGED <<suggestedTimes, selectedTime, loading, pending, picked>>

\* A click on the badge of a displayed suggestion.
SelectTime(time) ==
    /\ time \in Range(suggestedTimes)
    /\ selectedTime' = time
    /\ picked' = time
    /\ effects' = <<>>
    /\ UNCHANGED <<form, suggestedTimes, loading, meetingCost, pending>>

\* Mutant of NoTimeSelected: suggestions are requested only while none is shown.
NoTimeSelectedAndNoneShown == selectedTime = "" /\ suggestedTimes = <<>>

\* onSubmit's test of the selection: !selectedTime.
NoTimeSelected == selectedTime = ""

\* form.handleSubmit(onSubmit), up to the point where getSuggestedTimes
\* suspends at the fetch.
Submit ==
    /\ ~SubmitDisabled
    /\ IF SchemaErrors(form) # {}
       THEN /\ effects' = <<[type |-> "messages", fields |-> SchemaErrors(form)]>>
            /\ UNCHANGED <<loading, pending>>
       ELSE IF NoTimeSelected
       THEN /\ loading' = TRUE
            /\ pending' = pending + 1
            /\ effects' = <<[type |-> "fetch", body |-> RequestBody(form)]>>
       ELSE /\ effects' = <<[type |-> "confetti"],
                            [type |-> "log",
                             record |-> ScheduledRecord(form, selectedTime)]>>
            /\ UNCHANGED <<loading, pending>>
    /\ UNCHANGED <<form, suggestedTimes, selectedTime, meetingCost, picked>>

\* Mutant of FetchResolved: a new SuggestionSet resets the selection.
FetchResolvedClearsSelection(times) ==
    /\ pending > 0
    /\ suggestedTimes' = times
    /\ selectedTime' = ""
    /\ loading' = FALSE
    /\ pending' = pending - 1
    /\ effects' = <<>>
    /\ UNCHANGED <<form, meetingCost, picked>>

\* getSuggestedTimes resumes with the decoded response.
FetchResolved(times) ==
    /\ pending > 0
    /\ suggestedTimes' = times
    /\ loading' = FALSE
    /\ pending' = pending - 1
    /\ effects' = <<>>
    /\ UNCHANGED <<form, selectedTime, meetingCost, picked>>

\* Mutant of FetchFailed: the failure empties the suggestion list.
FetchFailedClearsSuggestions ==
    /\ pending > 0
    /\ suggestedTimes' = <<>>
    /\ loading' = FALSE
    /\ pending' = pending - 1
    /\ effects' = <<[type |-> "error"]>>
    /\ UNCHANGED <<form, selectedTime, meetingCost, picked>>

\* Mutant of FetchFailed: loading is cleared inside the try block only.
FetchFailedKeepsLoading ==
    /\ pending > 0
    /\ pending' = pending - 1
    /\ effects' = <<[type |-> "error"]>>
    /\ UNCHANGED <<form, suggestedTimes, selectedTime, loading, meetingCost, picked>>

\* getSuggestedTimes resumes in the catch block.
FetchFailed ==
    /\ pending > 0
    /\ loading' = FALSE
    /\ pending' = pending - 1
    /\ effects' = <<[type |-> "error"]>>
    /\ UNCHANGED <<form, suggestedTimes, selectedTime, meetingCost, picked>>

Next ==
    \/ \E t \in TitleInputs : SetTitle(t)
    \/ \E d \in DescriptionInputs : SetDescription(d)
    \/ \E d \in DateInputs : SetDate(d)
    \/ \E d \in durations : SetDuration(d)
    \/ \E p \in priorities : SetPriority(p)
    \/ \E c \in ThemeInputs : SetThemeColor(c)
    \/ \E i \in 1..MaxParticipants, e \in EmailInputs : EditParticipant(i, e)
    \/ \E i \in 1..MaxParticipants : RemoveParticipant(i)
    \/ AddParticipant
    \/ \E template \in meetingTemplates : applyTemplate(template)
    \/ \E time \in Range(suggestedTimes) : SelectTime(time)
    \/ Submit
    \/ \E times \in Responses : FetchResolved(times)
    \/ FetchFailed

Spec == Init /\ [][Next]_vars

\* The fetch promise settles: every suspended getSuggestedTimes resumes.
FairSpec == Spec /\ WF_vars((\E times \in Responses : FetchResolved(times)) \/ FetchFailed)

---------------------------------------------------------------------------
(* Vocabulary of the properties, stated on the observable state and on    *)
(* what a step emits, independently of the handlers above.                *)

WellFormedEmails == { ValidEmail }

\* The draft fails validation: title shorter than 2 characters, date absent,
\* duration absent, participants empty, or a participant that is no e-mail.
DraftInvalid ==
    \/ Len(form.title) < 2
    \/ form.date = Undefined
    \/ form.duration = Undefined
    \/ form.participants = <<>>
    \/ \E i \in 1..Len(form.participants) :
           form.participants[i] \notin WellFormedEmails

Emitted(fx, type) == { i \in 1..Len(fx) : fx[i].type = type }

\* The step issues a suggestion request.
IssuesRequest == pending' > pending \/ Emitted(effects', "fetch") # {}

\* The step emits a record.
EmitsRecord == Emitted(effects', "log") # {}

\* The step emits exactly one record: the draft of the moment and time t.
EmitsOneRecord(t) ==
    /\ Cardinality(Emitted(effects', "log")) = 1
    /\ \A i \in Emitted(effects', "log") :
           effects'[i].record =
               [title |-> form.title, description |-> form.description,
                date |-> form.date, duration |-> form.duration,
                participants |-> form.participants,
                timezone |-> form.timezone, priority |-> form.priority,
                themeColor |-> form.themeColor, time |-> t]

\* C1: a submit whose draft fails validation is aborted: it issues no
\* suggestion request, emits no record and leaves suggestedTimes,
\* selectedTime and loading as they were; no step taken from a state whose
\* draft is invalid (in particular participants = []) issues a request.
C1_InvalidSubmitAborts ==
    [][DraftInvalid =>
          /\ ~IssuesRequest
          /\ ~EmitsRecord
          /\ Submit => /\ Emitted(effects', "messages") # {}
                       /\ UNCHANGED <<suggestedTimes, selectedTime, loading>>]_vars

\* C1 witness: a submit with participants = [] and every other field valid
\* has just been rejected.
C1_Witness ==
    /\ form.participants = <<>>
    /\ effects = <<[type |-> "messages", fields |-> {"participants"}]>>
    /\ ~loading

\* C2 as stated: once any suggestion label t has been clicked, the next
\* submit with a valid draft finalizes with time = t and changes nothing else.
C2_Original ==
    [][(Submit /\ ~DraftInvalid /\ picked # NoPick) =>
          /\ EmitsOneRecord(picked)
          /\ ~IssuesRequest
          /\ UNCHANGED <<form, suggestedTimes, selectedTime>>]_vars

\* C2 amended: once a non-empty suggestion label t has been clicked (and is
\* the selection), the next submit with a valid draft emits exactly one
\* record with time = t and the draft's fields, issues no request, and leaves
\* the draft, suggestedTimes and selectedTime unchanged.
C2_SelectedSubmitFinalizes ==
    [][(Submit /\ ~DraftInvalid /\ picked # NoPick /\ picked # "") =>
          /\ EmitsOneRecord(picked)
          /\ ~IssuesRequest
          /\ UNCHANGED <<form, suggestedTimes, selectedTime>>]_vars

\* C2 witness: "2:00 PM" was selected and the submit has logged the record.
C2_Witness ==
    /\ picked = "2:00 PM"
    /\ Len(effects) = 2
    /\ effects[2].type = "log"
    /\ effects[2].record.time = "2:00 PM"
    /\ effects[2].record.title = form.title

\* C3: every submit with a valid draft and no selected time issues one new
\* suggestion request carrying the draft's participants, duration and
\* timezone, sets loading and emits no record, whether or not suggestions
\* are already shown.
C3_UnselectedSubmitRequests ==
    [][(Submit /\ ~DraftInvalid /\ selectedTime = "") =>
          /\ effects' = <<[type |-> "fetch",
                           body |-> [participants |-> form.participants,
                                     duration |-> form.duration,
                                     timezone |-> form.timezone]]>>
          /\ pending' = pending + 1
          /\ loading'
          /\ ~EmitsRecord]_vars

\* C3 witness: a request was issued while suggestions were already shown.
C3_Witness ==
    /\ suggestedTimes # <<>>
    /\ selectedTime = ""
    /\ Emitted(effects, "fetch") # {}
    /\ loading

\* C4 as stated: the selection is empty or a member of the current
\* SuggestionSet.
C4_SelectionInSuggestionSet ==
    selectedTime = "" \/ selectedTime \in Range(suggestedTimes)

\* C5 as stated: after a failed request the suggestion list is empty.
C5_Original ==
    [][Emitted(effects', "error") # {} => suggestedTimes' = <<>>]_vars

\* C5 amended: a failed request sets no suggestions: the suggestion list
\* after the failure is the list as it was before it (empty when no earlier
\* request had delivered a non-empty list), and loading is cleared.
C5_FailureKeepsSuggestions ==
    [][Emitted(effects', "error") # {} =>
          /\ suggestedTimes' = suggestedTimes
          /\ pending' = pending - 1
          /\ ~loading']_vars

\* C5 witness: a request failed after an earlier one had delivered labels.
C5_Witness ==
    /\ effects = <<[type |-> "error"]>>
    /\ suggestedTimes # <<>>
    /\ ~loading

\* C6: every issued request sets loading; a request that completes, with a
\* response or an error, clears it; and once the request settles, loading
\* becomes false again.
C6_LoadingSetThenCleared ==
    /\ [][pending' > pending => loading']_vars
    /\ [][pending' < pending => ~loading']_vars
    /\ (loading ~> ~loading)

\* C6 witness: a request has failed and the loading indicator is off.
C6_Witness ==
    /\ effects = <<[type |-> "error"]>>
    /\ pending = 0
    /\ ~loading

C7_Presets ==
    { [name |-> "Quick Sync", duration |-> <<"1", "5">>,
       description |-> "Brief alignment meeting", priority |-> "low"],
      [name |-> "Team Planning", duration |-> <<"6", "0">>,
       description |-> "Detailed team planning session", priority |-> "medium"],
      [name |-> "Client Presentation", duration |-> <<"4", "5">>,
       description |-> "Important client meeting", priority |-> "high"] }

\* C7: applying any of the three presets sets duration, description and
\* priority to the preset's values and leaves title, date, participants,
\* timezone, themeColor, suggestedTimes, selectedTime and loading unchanged,
\* also while a request is in flight.
C7_TemplateFrame ==
    [][\A p \in C7_Presets :
          /\ \E t \in meetingTemplates : t.name = p.name
          /\ \A t \in meetingTemplates :
                (t.name = p.name /\ applyTemplate(t)) =>
                    /\ form'.duration = p.duration
                    /\ form'.description = p.description
                    /\ form'.priority = p.priority
                    /\ form'.title = form.title
                    /\ form'.date = form.date
                    /\ form'.participants = form.participants
                    /\ form'.timezone = form.timezone
                    /\ form'.themeColor = form.themeColor
                    /\ UNCHANGED <<suggestedTimes, selectedTime, loading>>]_vars

\* C7 witness: Quick Sync was applied while a request is in flight, on a
\* draft whose title and theme colour are not the defaults.
C7_Witness ==
    /\ loading
    /\ form.duration = <<"1", "5">>
    /\ form.description = "Brief alignment meeting"
    /\ form.priority = "low"
    /\ form.title = <<"M", "t">>
    /\ form.themeColor = "purple"

\* 100 * d / 60 for the durations on offer, 0 while none is chosen.
C8_PerParticipant(d) ==
    CASE d = Undefined -> 0
      [] d = <<"1", "5">> -> 25
      [] d = <<"3", "0">> -> 50
      [] d = <<"4", "5">> -> 75
      [] d = <<"6", "0">> -> 100

\* C8: the displayed cost is participants.length * (duration / 60) * 100,
\* that is 25n, 50n, 75n or 100n, and 0 while no duration is chosen; a step
\* that changes neither the number of participants nor the duration does not
\* change it.
C8_CostIsPure ==
    /\ [](meetingCost = Len(form.participants) * C8_PerParticipant(form.duration))
    /\ [][(Len(form'.participants) = Len(form.participants)
           /\ form'.duration = form.duration) => meetingCost' = meetingCost]_vars

\* C8 witness: every entry was removed while a duration is chosen.
C8_Witness ==
    /\ form.participants = <<>>
    /\ form.duration = <<"4", "5">>
    /\ form.description = ""
    /\ meetingCost = 0

\* C9: at most one suggestion request is in flight, and loading is true
\* exactly while one is.
C9_SingleRequestInFlight ==
    /\ pending \in {0, 1}
    /\ loading <=> pending = 1

\* C9 witness: a request is in flight after an earlier one has delivered.
C9_Witness ==
    /\ pending = 1
    /\ loading
    /\ suggestedTimes # <<>>

\* C10 as stated: once the selection is non-empty no operation clears it.
C10_Original ==
    [][selectedTime # "" => selectedTime' # ""]_vars

\* C10 amended: once a non-empty label is selected, the only operation that
\* clears the selection is a click on a suggestion whose label is the empty
\* string; every other operation leaves the selection as it is or replaces
\* it by another non-empty label. While the selection is non-empty no
\* suggestion request is issued and every submit with a valid draft emits a
\* record with the selected time.
C10_SelectionSticks ==
    [][selectedTime # "" =>
          /\ selectedTime' = "" =>
                 (picked' = "" /\ "" \in Range(suggestedTimes))
          /\ selectedTime' # selectedTime => picked' = selectedTime'
          /\ ~IssuesRequest
          /\ (Submit /\ ~DraftInvalid) =>
                 (EmitsOneRecord(selectedTime) /\ selectedTime' = selectedTime)]_vars

\* C10 witness: a record was emitted and the selection is still in place.
C10_Witness ==
    /\ selectedTime = "10:00 AM"
    /\ Emitted(effects, "log") # {}
    /\ Emitted(effects, "confetti") # {}

====
